---- MODULE Spec2Model ----
(***************************************************************************)
(* Model of the eye-clinic web site's client code: the Google Sheets       *)
(* client (fetchData / parseSheetData), the product and gallery managers,  *)
(* the page start-up sequence (App.init and the DOMContentLoaded handler), *)
(* the card click handoff through sessionStorage and the detail pages.     *)
(*                                                                         *)
(* JavaScript strings are sequences of one-character strings, so that      *)
(* trim / toLowerCase / replace / includes are computed, not assumed.      *)
(* A record (a JS object built by parseSheetData) is a sequence of         *)
(* <<key, value>> pairs with pairwise distinct keys, in insertion order.   *)
(***************************************************************************)
EXTENDS Integers, Sequences, FiniteSets, TLC

VARIABLES
    values,            \* SpecParse: the grid handed to parseSheetData
    parsed,            \* SpecParse: [done, result] of the parseSheetData call
    products,          \* ProductManager.products
    filteredProducts,  \* ProductManager.filteredProducts
    galleryItems,      \* GalleryManager.galleryItems
    pending,           \* load calls in flight: [kind][await point] -> how many
    fetchCalls,        \* fetchData invocations so far
    requests,          \* fetch(url) network requests issued so far
    lastOp,            \* the manager operation that completed last
    lastLoad,          \* its I/O outcome and results, when it was a load
    lastQuery,         \* its argument, when it was a search or a filter
    lastRet,           \* the list it returned
    viewBefore,        \* filteredProducts as that operation found it
    page,              \* the document shown: its route and mount points
    phase,             \* "none", "loading" (before DOMContentLoaded) or "ready"
    storage,           \* sessionStorage: key -> [has, text]
    win,               \* the containers' content, window.productsData/galleryData
    app,               \* App.init: where it stands, how each load settled
    handler,           \* which steps of the DOMContentLoaded handler ran
    globalErrors,      \* .global-error banners in the document
    bannersShown,      \* banners shown since the document loaded
    timers,            \* pending setTimeout callbacks, by kind
    formMessage,       \* the contact form's message line
    formData,          \* the contact form's fields
    clicked,           \* the card whose click brought this page up, if any
    searchedPending,   \* the last search ran while a product load was in flight
    productRecord,     \* SpecImages: the product record handed to the UI
    images,            \* SpecImages: [done, list] of the getProductImages call
    detail,            \* SpecImages: the product detail view's image block
    swState,           \* SpecWorker: the service worker's lifecycle state
    caches,            \* SpecWorker: CacheStorage, cache name -> its entries
    activation,        \* SpecWorker: the activate handler's progress
    events             \* SpecWorker: the fetch events, with how each was answered

parseVars == <<values, parsed>>

catalogVars == <<products, filteredProducts, galleryItems, pending, fetchCalls,
                 requests, lastOp, lastLoad, lastQuery, lastRet, viewBefore,
                 searchedPending>>

imageVars == <<productRecord, images, detail>>

workerVars == <<swState, caches, activation, events>>

pageVars == <<page, phase, storage, win, app, handler, globalErrors, bannersShown,
              timers, formMessage, formData, clicked>>

vars == <<values, parsed, products, filteredProducts, galleryItems, pending,
          fetchCalls, requests, lastOp, lastLoad, lastQuery, lastRet, viewBefore,
          page, phase, storage, win, app, handler, globalErrors, bannersShown,
          timers, formMessage, formData, clicked, searchedPending,
          productRecord, images, detail, swState, caches, activation, events>>

-----------------------------------------------------------------------------
(* JavaScript string primitives                                            *)

\* the value of a missing property (never equal to a string of characters)
Undefined == <<"undefined">>

UpperChars == <<"A","B","C","D","E","F","G","H","I","J","K","L","M",
                "N","O","P","Q","R","S","T","U","V","W","X","Y","Z">>
LowerChars == <<"a","b","c","d","e","f","g","h","i","j","k","l","m",
                "n","o","p","q","r","s","t","u","v","w","x","y","z">>

\* the characters the regular expression class \s and trim() treat as space
IsSpace(c) == c \in {" ", "\t", "\n"}

UpperToLower ==
    [c \in {UpperChars[i] : i \in 1..Len(UpperChars)} |->
        LowerChars[CHOOSE i \in 1..Len(UpperChars) : UpperChars[i] = c]]

LowerChar(c) == IF c \in DOMAIN UpperToLower THEN UpperToLower[c] ELSE c

\* String.prototype.toLowerCase
ToLowerCase(s) == [i \in 1..Len(s) |-> LowerChar(s[i])]

RECURSIVE TrimStart(_)
TrimStart(s) ==
    IF s # <<>> /\ IsSpace(Head(s)) THEN TrimStart(Tail(s)) ELSE s

RECURSIVE TrimEnd(_)
TrimEnd(s) ==
    IF s # <<>> /\ IsSpace(s[Len(s)]) THEN TrimEnd(SubSeq(s, 1, Len(s) - 1)) ELSE s

\* String.prototype.trim
Trim(s) == TrimEnd(TrimStart(s))

\* s.replace(/\s+/g, '_'): every maximal run of space characters becomes one '_'
RECURSIVE ReplaceSpaceRuns(_)
ReplaceSpaceRuns(s) ==
    IF s = <<>> THEN <<>>
    ELSE IF IsSpace(Head(s))
         THEN <<"_">> \o ReplaceSpaceRuns(TrimStart(s))
         ELSE <<Head(s)>> \o ReplaceSpaceRuns(Tail(s))

\* String.prototype.includes
Includes(s, q) ==
    \E i \in 0..(Len(s) - Len(q)) : SubSeq(s, i + 1, i + Len(q)) = q

-----------------------------------------------------------------------------
(* Records: JS objects with string keys, in insertion order                *)

HasField(item, key) == \E i \in 1..Len(item) : item[i][1] = key

\* item[key]
Get(item, key) ==
    IF HasField(item, key)
    THEN item[CHOOSE i \in 1..Len(item) : item[i][1] = key][2]
    ELSE Undefined

\* item[key] = v
SetField(item, key, v) ==
    IF HasField(item, key)
    THEN [i \in 1..Len(item) |-> IF item[i][1] = key THEN <<key, v>> ELSE item[i]]
    ELSE Append(item, <<key, v>>)

-----------------------------------------------------------------------------
(* GoogleSheetsService.parseSheetData                                      *)

\* header.trim().toLowerCase().replace(/\s+/g, '_')
NormalizeKey(header) == ReplaceSpaceRuns(ToLowerCase(Trim(header)))

\* a plausible slip: the cell to the right of the header's column
RowCellShifted(row, index) ==
    IF index + 1 <= Len(row) /\ row[index + 1] # <<>> THEN row[index + 1] ELSE <<>>

\* row[index] || ''   (index counted from 1 here)
RowCell(row, index) ==
    IF index <= Len(row) /\ row[index] # <<>> THEN row[index] ELSE <<>>

\* headers.forEach((header, index) => { item[key] = row[index] || '' })
RECURSIVE BuildItem(_, _, _, _)
BuildItem(headers, row, index, item) ==
    IF index > Len(headers) THEN item
    ELSE BuildItem(headers, row, index + 1,
                   SetField(item, NormalizeKey(headers[index]), RowCell(row, index)))

\* vals = [present |-> FALSE] models an undefined `values`
parseSheetData(vals) ==
    IF ~vals.present \/ Len(vals.grid) = 0 THEN <<>>
    ELSE LET headers == vals.grid[1]
             rows    == Tail(vals.grid)
         IN  [k \in 1..Len(rows) |-> BuildItem(headers, rows[k], 1, <<>>)]

-----------------------------------------------------------------------------
(* CONFIG (config.js): the normalized keys the renderers and filters read  *)

PRODUCT_COLUMNS_IMAGE_1 == <<"i","m","a","g","e","_","u","r","l","_","1">>
PRODUCT_COLUMNS_IMAGE_2 == <<"i","m","a","g","e","_","u","r","l","_","2">>
PRODUCT_COLUMNS_IMAGE_3 == <<"i","m","a","g","e","_","u","r","l","_","3">>
PRODUCT_COLUMNS_NAME == <<"p","r","o","d","u","c","t","_","n","a","m","e">>
PRODUCT_COLUMNS_DESCRIPTION ==
    <<"b","a","s","i","c","_","d","e","s","c","r","i","p","t","i","o","n">>
PRODUCT_COLUMNS_BRAND == <<"b","r","a","n","d","_","n","a","m","e">>
PRODUCT_COLUMNS_SHAPE == <<"f","r","a","m","e","_","s","h","a","p","e">>
PRODUCT_COLUMNS_MATERIAL ==
    <<"m","a","t","e","r","i","a","l","_","t","y","p","e">>
GALLERY_COLUMNS_NAME == <<"s","u","r","g","e","r","y","_","n","a","m","e">>
GALLERY_COLUMNS_CATEGORY == <<"c","a","t","e","g","o","r","y">>

PREVIEW_LIMIT_PRODUCTS == 3
PREVIEW_LIMIT_GALLERY == 3

-----------------------------------------------------------------------------
(* GoogleSheetsService.fetchData                                           *)

\* What one fetchData call meets: the network outcome `net` ("fail" when
\* fetch(url) rejects), response.ok, and the response body.  A body is
\*   [json |-> "notjson"]  response.json() rejects
\*   [json |-> "null"]     the JSON value null
\*   [json |-> "object"]   a JSON object with an `error` field that is absent,
\*                         truthy (an object) or falsy (null, "", 0), and a
\*                         `values` grid, possibly absent
NoGrid == [present |-> FALSE, grid |-> <<>>]
NoBody == [json |-> "notjson", error |-> "absent", vals |-> NoGrid]

Threw    == [threw |-> TRUE,  value |-> <<>>]
Return(v) == [threw |-> FALSE, value |-> v]

\* a plausible slip: the body's error field is not looked at
fetchDataIgnoringErrorField(net, ok, body) ==
    IF net = "fail" THEN Threw
    ELSE IF ~ok THEN Threw
    ELSE IF body.json = "notjson" THEN Threw
    ELSE IF body.json = "null" THEN Threw
    ELSE Return(parseSheetData(body.vals))

\* the outcome of fetchData, given what its awaits met
fetchData(net, ok, body) ==
    IF net = "fail" THEN Threw                    \* await fetch(url) rejects
    ELSE IF ~ok THEN Threw                        \* if (!response.ok) throw
    ELSE IF body.json = "notjson" THEN Threw      \* await response.json() rejects
    ELSE IF body.json = "null" THEN Threw         \* data.error of null: TypeError
    ELSE IF body.error = "truthy" THEN Threw      \* if (data.error) throw
    ELSE Return(parseSheetData(body.vals))

-----------------------------------------------------------------------------
(* ProductManager and GalleryManager                                       *)

Resolved(v) == [settled |-> "resolved", value |-> v]
Rejected    == [settled |-> "rejected", value |-> <<>>]

\* a plausible slip: the catch block rethrows
loadProductsRethrowing(res, prods, filtered) ==
    IF res.threw
    THEN [products |-> prods, filteredProducts |-> filtered, promise |-> Rejected]
    ELSE [products |-> res.value, filteredProducts |-> res.value,
          promise |-> Resolved(res.value)]

\* a plausible slip: the filtered view is not refreshed by a load
loadProductsKeepingView(res, prods, filtered) ==
    IF res.threw
    THEN [products |-> prods, filteredProducts |-> filtered, promise |-> Resolved(<<>>)]
    ELSE [products |-> res.value, filteredProducts |-> filtered,
          promise |-> Resolved(res.value)]

\* a plausible slip: a failed load empties the lists
loadProductsClearingOnError(res, prods, filtered) ==
    IF res.threw
    THEN [products |-> <<>>, filteredProducts |-> <<>>, promise |-> Resolved(<<>>)]
    ELSE [products |-> res.value, filteredProducts |-> res.value,
          promise |-> Resolved(res.value)]

\* loadProducts from the point where fetchData has settled with `res`
loadProducts(res, prods, filtered) ==
    IF res.threw
    THEN [products |-> prods, filteredProducts |-> filtered, promise |-> Resolved(<<>>)]
    ELSE [products |-> res.value, filteredProducts |-> res.value,
          promise |-> Resolved(res.value)]

\* a plausible slip: loadGallery's catch block rethrows
loadGalleryRethrowing(res, items) ==
    IF res.threw
    THEN [galleryItems |-> items, promise |-> Rejected]
    ELSE [galleryItems |-> res.value, promise |-> Resolved(res.value)]

\* loadGallery from the point where fetchData has settled with `res`
loadGallery(res, items) ==
    IF res.threw
    THEN [galleryItems |-> items, promise |-> Resolved(<<>>)]
    ELSE [galleryItems |-> res.value, promise |-> Resolved(res.value)]

\* a plausible slip: the first load to resolve lets App.init go on
PromiseAllFirstResolved(settled) ==
    IF \E k \in DOMAIN settled : settled[k] = "rejected" THEN "rejected"
    ELSE IF \E k \in DOMAIN settled : settled[k] = "resolved" THEN "fulfilled"
    ELSE "pending"

\* await Promise.all([...]): rejected as soon as one promise has rejected,
\* fulfilled once all have resolved
PromiseAll(settled) ==
    IF \E k \in DOMAIN settled : settled[k] = "rejected" THEN "rejected"
    ELSE IF \A k \in DOMAIN settled : settled[k] = "resolved" THEN "fulfilled"
    ELSE "pending"

\* getProductsForPreview / getGalleryForPreview: list.slice(0, limit)
SliceFirst(list, limit) ==
    SubSeq(list, 1, IF Len(list) < limit THEN Len(list) ELSE limit)

\* a plausible slip: the preview shows the newest (last) rows
getProductsForPreviewLast(filtered) ==
    SubSeq(filtered,
           IF Len(filtered) > PREVIEW_LIMIT_PRODUCTS
           THEN Len(filtered) - PREVIEW_LIMIT_PRODUCTS + 1 ELSE 1,
           Len(filtered))

getProductsForPreview(filtered) == SliceFirst(filtered, PREVIEW_LIMIT_PRODUCTS)
getGalleryForPreview(items) == SliceFirst(items, PREVIEW_LIMIT_GALLERY)

\* Array.prototype.filter is SelectSeq: same elements, same order.

\* !query : undefined, null and '' are falsy
Falsy(s) == s = Undefined \/ s = <<>>

\* product[field]?.toLowerCase().includes(searchQuery)
FieldIncludes(product, field, searchQuery) ==
    /\ Get(product, field) # Undefined
    /\ Includes(ToLowerCase(Get(product, field)), searchQuery)

ProductMatches(product, searchQuery) ==
    \/ FieldIncludes(product, PRODUCT_COLUMNS_NAME, searchQuery)
    \/ FieldIncludes(product, PRODUCT_COLUMNS_DESCRIPTION, searchQuery)
    \/ FieldIncludes(product, PRODUCT_COLUMNS_BRAND, searchQuery)
    \/ FieldIncludes(product, PRODUCT_COLUMNS_SHAPE, searchQuery)
    \/ FieldIncludes(product, PRODUCT_COLUMNS_MATERIAL, searchQuery)

\* a plausible slip: an empty query keeps the current view, a non-empty one
\* narrows it
searchProductsComposing(query, prods, filtered) ==
    IF Falsy(query) THEN filtered
    ELSE LET searchQuery == ToLowerCase(query)
             Keep(p) == ProductMatches(p, searchQuery)
         IN  SelectSeq(filtered, Keep)

\* a plausible slip: the query is compared as typed
searchProductsCaseSensitive(query, prods, filtered) ==
    IF Falsy(query) THEN prods
    ELSE LET Keep(p) == ProductMatches(p, query)
         IN  SelectSeq(prods, Keep)

\* searchProducts: the new filteredProducts, which is also what it returns
searchProducts(query, prods, filtered) ==
    IF Falsy(query) THEN prods
    ELSE LET searchQuery == ToLowerCase(query)
             Keep(p) == ProductMatches(p, searchQuery)
         IN  SelectSeq(prods, Keep)

\* a plausible slip: a category matches when it contains the argument
filterByCategoryIncluding(category, items) ==
    IF Falsy(category) THEN items
    ELSE LET Keep(item) ==
                 /\ Get(item, GALLERY_COLUMNS_CATEGORY) # Undefined
                 /\ Includes(ToLowerCase(Get(item, GALLERY_COLUMNS_CATEGORY)),
                             ToLowerCase(category))
         IN  SelectSeq(items, Keep)

\* filterByCategory: item[CATEGORY]?.toLowerCase() === category.toLowerCase()
filterByCategory(category, items) ==
    IF Falsy(category) THEN items
    ELSE LET Keep(item) ==
                 /\ Get(item, GALLERY_COLUMNS_CATEGORY) # Undefined
                 /\ ToLowerCase(Get(item, GALLERY_COLUMNS_CATEGORY))
                        = ToLowerCase(category)
         IN  SelectSeq(items, Keep)

-----------------------------------------------------------------------------
(* JSON.stringify / JSON.parse on records: a JSON text is a sequence of    *)
(* tokens, strings carrying their characters                               *)

Tok(t) == [t |-> t, s |-> <<>>]
Str(s) == [t |-> "string", s |-> s]

RECURSIVE StringifyMembers(_)
StringifyMembers(item) ==
    IF item = <<>> THEN <<>>
    ELSE <<Str(item[1][1]), Tok(":"), Str(item[1][2])>>
         \o (IF Len(item) > 1 THEN <<Tok(",")>> ELSE <<>>)
         \o StringifyMembers(Tail(item))

\* JSON.stringify(record)
JSONstringify(item) == <<Tok("{")>> \o StringifyMembers(item) \o <<Tok("}")>>

SyntaxError == [ok |-> FALSE, null |-> FALSE, value |-> <<>>]
ParsedNull  == [ok |-> TRUE,  null |-> TRUE,  value |-> <<>>]
ParsedObject(item) == [ok |-> TRUE, null |-> FALSE, value |-> item]

RECURSIVE ParseMembers(_, _)
ParseMembers(toks, item) ==
    IF Len(toks) < 3 \/ toks[1].t # "string" \/ toks[2].t # ":" \/ toks[3].t # "string"
    THEN SyntaxError
    ELSE LET item2 == SetField(item, toks[1].s, toks[3].s)
             rest  == SubSeq(toks, 4, Len(toks))
         IN  IF rest = <<>> THEN ParsedObject(item2)
             ELSE IF rest[1].t = "," THEN ParseMembers(Tail(rest), item2)
             ELSE SyntaxError

\* JSON.parse(text); `ok` is FALSE when it throws a SyntaxError
JSONparse(text) ==
    IF text = <<Tok("null")>> THEN ParsedNull
    ELSE IF Len(text) >= 2 /\ text[1].t = "{" /\ text[Len(text)].t = "}"
    THEN IF Len(text) = 2 THEN ParsedObject(<<>>)
         ELSE ParseMembers(SubSeq(text, 2, Len(text) - 1), <<>>)
    ELSE SyntaxError

-----------------------------------------------------------------------------
(* sessionStorage                                                          *)

NoItem == [has |-> FALSE, text |-> <<>>]
Item(text) == [has |-> TRUE, text |-> text]

\* JSON.parse(sessionStorage.getItem(key)): getItem gives null for a missing
\* key, which JSON.parse reads as the text "null"
ParseItem(stored) ==
    IF stored.has THEN JSONparse(stored.text) ELSE JSONparse(<<Tok("null")>>)

-----------------------------------------------------------------------------
(* The window: the containers' content and the two rendered-list globals   *)

ContainerNames ==
    { "featured-products", "featured-gallery", "products-container",
      "gallery-container", "details-container", "contact-form" }

Blank      == [view |-> "blank", of |-> "none", cards |-> <<>>, data |-> <<>>]
NoResults(of) == [view |-> "no-results", of |-> of, cards |-> <<>>, data |-> <<>>]
\* one card per record, carrying the index its onclick passes
Cards(of, list) ==
    [view |-> "cards", of |-> of,
     cards |-> [i \in 1..Len(list) |-> [index |-> i - 1, record |-> list[i]]],
     data |-> <<>>]
NothingSelected(of) ==
    [view |-> "nothing-selected", of |-> of, cards |-> <<>>, data |-> <<>>]
Detail(of, data) == [view |-> "detail", of |-> of, cards |-> <<>>, data |-> data]

NoList == [set |-> FALSE, list |-> <<>>]
Listed(list) == [set |-> TRUE, list |-> list]

BlankWindow ==
    [dom |-> [c \in ContainerNames |-> Blank],
     productsData |-> NoList, galleryData |-> NoList]

\* UI.renderProducts(container, products)
renderProducts(w, container, list) ==
    IF Len(list) = 0
    THEN [w EXCEPT !.dom[container] = NoResults("products")]
    ELSE [w EXCEPT !.dom[container] = Cards("products", list),
                   !.productsData = Listed(list)]

\* UI.renderGallery(container, items)
renderGallery(w, container, items) ==
    IF Len(items) = 0
    THEN [w EXCEPT !.dom[container] = NoResults("gallery")]
    ELSE [w EXCEPT !.dom[container] = Cards("gallery", items),
                   !.galleryData = Listed(items)]

\* App.renderHomePreviews
renderHomePreviews(w, containers, filtered, items) ==
    LET w1 == IF "featured-products" \in containers
              THEN renderProducts(w, "featured-products", getProductsForPreview(filtered))
              ELSE w
    IN  IF "featured-gallery" \in containers
        THEN renderGallery(w1, "featured-gallery", getGalleryForPreview(items))
        ELSE w1

\* App.renderProductsPage
renderProductsPage(w, containers, filtered) ==
    IF "products-container" \in containers
    THEN renderProducts(w, "products-container", filtered)
    ELSE w

\* App.renderGalleryPage
renderGalleryPage(w, containers, items) ==
    IF "gallery-container" \in containers
    THEN renderGallery(w, "gallery-container", items)
    ELSE w

\* the body of App.init's try block after the await
initRender(w, pg, filtered, items) ==
    LET w1 == renderHomePreviews(w, pg.containers, filtered, items)
    IN  IF pg.route = "products.html"
        THEN renderProductsPage(w1, pg.containers, filtered)
        ELSE IF pg.route = "gallery.html"
        THEN renderGalleryPage(w1, pg.containers, items)
        ELSE w1

\* renderProductDetails / renderSurgeryDetails: `threw` when JSON.parse
\* throws out of the function
renderDetails(w, pg, store, of, route, key) ==
    IF "details-container" \notin pg.containers \/ pg.route # route
    THEN [threw |-> FALSE, w |-> w]
    ELSE LET data == ParseItem(store[key])
         IN  IF ~data.ok THEN [threw |-> TRUE, w |-> w]
             ELSE IF data.null
             THEN [threw |-> FALSE,
                   w |-> [w EXCEPT !.dom["details-container"] = NothingSelected(of)]]
             ELSE [threw |-> FALSE,
                   w |-> [w EXCEPT !.dom["details-container"] = Detail(of, data.value)]]

renderProductDetails(w, pg, store) ==
    renderDetails(w, pg, store, "products", "product-details.html", "selectedProduct")

renderSurgeryDetails(w, pg, store) ==
    renderDetails(w, pg, store, "gallery", "surgery-details.html", "selectedSurgery")

\* a plausible slip: the card's index is taken one-based
goToIndexOneBased(data, index) ==
    IF data.set /\ index + 2 <= Len(data.list)
    THEN [found |-> TRUE, text |-> JSONstringify(data.list[index + 2])]
    ELSE [found |-> FALSE, text |-> <<>>]

\* goToProduct / goToSurgery: what is written for `index`, if anything
\* (products && products[index], then JSON.stringify(products[index]))
goToIndex(data, index) ==
    IF data.set /\ index >= 0 /\ index + 1 <= Len(data.list)
    THEN [found |-> TRUE, text |-> JSONstringify(data.list[index + 1])]
    ELSE [found |-> FALSE, text |-> <<>>]

-----------------------------------------------------------------------------
(* ContactForm                                                             *)

\* one character of the class [\s@]
InSpaceAtClass(c) == IsSpace(c) \/ c = "@"

AllInClass(s, from, to) == \A i \in from..to : InSpaceAtClass(s[i])

\* /^[\s@]+@[\s@]+\.[\s@]+$/.test(email)
isValidEmail(email) ==
    \E at \in 2..Len(email), dot \in 4..Len(email) :
        /\ at + 1 < dot
        /\ dot < Len(email)
        /\ email[at] = "@"
        /\ email[dot] = "."
        /\ AllInClass(email, 1, at - 1)
        /\ AllInClass(email, at + 1, dot - 1)
        /\ AllInClass(email, dot + 1, Len(email))

\* validateForm: "ok", or the error it shows
validateForm(data) ==
    IF Falsy(data.name) \/ Falsy(data.email) \/ Falsy(data.subject) \/ Falsy(data.message)
    THEN "Please fill in all required fields."
    ELSE IF ~isValidEmail(data.email)
    THEN "Please enter a valid email address."
    ELSE "ok"

-----------------------------------------------------------------------------
(* Product images: UI.getProductImages, and the image block of the product *)
(* detail view with its thumbnails                                         *)

\* 'https://via.placeholder.com/300x250?text=No+Image'
PLACEHOLDER_CARD ==
    <<"h","t","t","p","s",":","/","/","v","i","a",".","p","l","a","c",
      "e","h","o","l","d","e","r",".","c","o","m","/","3","0","0","x",
      "2","5","0","?","t","e","x","t","=","N","o","+","I","m","a","g",
      "e">>

\* 'https://via.placeholder.com/600x400?text=No+Image'
PLACEHOLDER_DETAIL ==
    <<"h","t","t","p","s",":","/","/","v","i","a",".","p","l","a","c",
      "e","h","o","l","d","e","r",".","c","o","m","/","6","0","0","x",
      "4","0","0","?","t","e","x","t","=","N","o","+","I","m","a","g",
      "e">>

imageFields == <<PRODUCT_COLUMNS_IMAGE_1, PRODUCT_COLUMNS_IMAGE_2, PRODUCT_COLUMNS_IMAGE_3>>

\* product[field] && product[field].trim()
HasImage(item, field) ==
    /\ ~Falsy(Get(item, field))
    /\ Trim(Get(item, field)) # <<>>

\* imageFields.forEach(field => { if (...) images.push(product[field].trim()) })
RECURSIVE PushImages(_, _, _)
PushImages(item, index, list) ==
    IF index > Len(imageFields) THEN list
    ELSE PushImages(item, index + 1,
                    IF HasImage(item, imageFields[index])
                    THEN Append(list, Trim(Get(item, imageFields[index])))
                    ELSE list)

\* a plausible slip: the values are pushed as they stand in the record
getProductImagesUntrimmed(item) ==
    LET Keep(i) == HasImage(item, imageFields[i])
        kept == SelectSeq(<<1, 2, 3>>, Keep)
        list == [k \in 1..Len(kept) |-> Get(item, imageFields[kept[k]])]
    IN  IF Len(list) > 0 THEN list ELSE <<PLACEHOLDER_CARD>>

\* UI.getProductImages
getProductImages(item) ==
    LET list == PushImages(item, 1, <<>>)
    IN  IF Len(list) > 0 THEN list ELSE <<PLACEHOLDER_CARD>>

\* renderProductDetails: [data[IMAGE_1], data[IMAGE_2], data[IMAGE_3]]
\*                           .filter(img => img && img.trim())
\* (the values are kept as stored, not trimmed)
detailImages(data) ==
    LET Keep(i) == HasImage(data, imageFields[i])
        kept == SelectSeq(<<1, 2, 3>>, Keep)
    IN  [k \in 1..Len(kept) |-> Get(data, imageFields[kept[k]])]

\* The thumbnail's handler is written into the markup as the text
\*     onclick="changeDetailImage('${img}', ${i})"
\* with img inserted as it is.  The attribute value ends at the first double
\* quote and the string literal at the first apostrophe, and a line break
\* may not stand inside the literal: with any of them in img the text is not
\* a call of changeDetailImage and the click raises a SyntaxError instead.
\* A backslash starts an escape sequence, which the model's urls do not hold.
onclickOf(img, i) ==
    IF \E j \in 1..Len(img) : img[j] \in {"'", "\"", "\n"}
    THEN [ok |-> FALSE, imageUrl |-> <<>>, index |-> i]
    ELSE [ok |-> TRUE, imageUrl |-> img, index |-> i]

\* the image block renderProductDetails writes: the main image, and the
\* thumbnails when there is more than one image
detailImageBlock(data) ==
    LET imgs == detailImages(data)
    IN  [rendered |-> TRUE,
         main |-> IF Len(imgs) > 0 THEN imgs[1] ELSE PLACEHOLDER_DETAIL,
         thumbs |-> IF Len(imgs) > 1
                    THEN [k \in 1..Len(imgs) |->
                             [src |-> imgs[k], onclick |-> onclickOf(imgs[k], k - 1),
                              active |-> (k - 1 = 0)]]
                    ELSE <<>>,
         lastClicked |-> 0]

\* changeDetailImage(imageUrl, index)
changeDetailImage(d, imageUrl, index) ==
    [d EXCEPT !.main = imageUrl,
              !.thumbs = [k \in 1..Len(d.thumbs) |->
                             [d.thumbs[k] EXCEPT !.active = (k - 1 = index)]]]

-----------------------------------------------------------------------------
(* The parts of the state a specification that does not use them leaves    *)
(* at rest                                                                 *)

NoImages == [done |-> FALSE, list |-> <<>>]

NoDetail == [rendered |-> FALSE, main |-> <<>>, thumbs |-> <<>>, lastClicked |-> 0]

ImagesIdle ==
    /\ productRecord = <<>>
    /\ images = NoImages
    /\ detail = NoDetail

WorkerIdle ==
    /\ swState = "none"
    /\ caches = <<>>
    /\ activation = <<>>
    /\ events = <<>>

-----------------------------------------------------------------------------
(* SpecCatalog: the two managers under any sequence of load, search and    *)
(* filter calls, with the loads' awaits interleaved                        *)

MaxCalls == 2

Kinds == {"products", "gallery"}

\* raw headers of the two sheets (normalized by parseSheetData)
HdrProductName == <<"P","r","o","d","u","c","t"," ","N","a","m","e">>
HdrBrandName   == <<"b","r","a","n","d","_","n","a","m","e">>
HdrFrameShape  == <<" ","F","r","a","m","e"," "," ","S","h","a","p","e">>
HdrMaterial    == <<"M","a","t","e","r","i","a","l"," ","T","y","p","e">>
HdrDescription ==
    <<"B","a","s","i","c"," ","D","e","s","c","r","i","p","t","i","o","n">>
HdrSurgeryName == <<"S","u","r","g","e","r","y"," ","N","a","m","e">>
HdrCategory    == <<"C","a","t","e","g","o","r","y">>

\* four products (more than the preview limit); no description or material
\* column; the third row is shorter than the header
ProductGridA ==
    [present |-> TRUE,
     grid |-> << <<HdrProductName, HdrBrandName, HdrFrameShape>>,
                 << <<"T","i">>, <<"R","a">>, <<"o","v">> >>,
                 << <<"a","b">>, <<>>, <<"T","I">> >>,
                 << <<"B">> >>,
                 << <<"t","i">>, <<"R","a">> >> >>]

\* one product without name, brand or shape
ProductGridB ==
    [present |-> TRUE,
     grid |-> << <<HdrMaterial, HdrDescription>>,
                 << <<"t","i">>, <<"a","B">> >> >>]

GalleryGridA ==
    [present |-> TRUE,
     grid |-> << <<HdrSurgeryName, HdrCategory>>,
                 << <<"L","k">>, <<"L","a","s">> >>,
                 << <<"C","t">>, <<"l","a","s">> >>,
                 << <<"X">> >>,
                 << <<"Z">>, <<"l","a">> >> >>]

\* a gallery sheet without a category column
GalleryGridB ==
    [present |-> TRUE,
     grid |-> << <<HdrSurgeryName>>, << <<"L","k">> >> >>]

HeaderOnlyGrid == [present |-> TRUE, grid |-> << <<HdrProductName>> >>]

SheetGrids(kind) ==
    IF kind = "products" THEN {ProductGridA, ProductGridB}
                         ELSE {GalleryGridA, GalleryGridB}

Bodies(kind) ==
    { [json |-> "notjson", error |-> "absent", vals |-> NoGrid],
      [json |-> "null",    error |-> "absent", vals |-> NoGrid],
      [json |-> "object",  error |-> "truthy", vals |-> NoGrid],
      [json |-> "object",  error |-> "absent", vals |-> NoGrid],
      [json |-> "object",  error |-> "absent", vals |-> HeaderOnlyGrid] }
    \cup { [json |-> "object", error |-> e, vals |-> g] :
               e \in {"absent", "falsy"}, g \in SheetGrids(kind) }

Queries == { Undefined, <<>>, <<"t","i">>, <<"T","i">>, <<"b">>, <<"z">> }

Categories == { Undefined, <<>>, <<"l","a","s">>, <<"L","A","S">>, <<"l","a">>, <<"z">> }

NoLoad == [kind |-> "none", net |-> "none", ok |-> FALSE, body |-> NoBody,
           fetch |-> Threw, promise |-> Rejected]

CatalogIdle ==
    /\ products = <<>>
    /\ filteredProducts = <<>>
    /\ galleryItems = <<>>
    /\ pending = [k \in Kinds |-> [p \in {"fetch", "json"} |-> 0]]
    /\ fetchCalls = 0
    /\ requests = 0
    /\ lastOp = "none"
    /\ lastLoad = NoLoad
    /\ lastQuery = Undefined
    /\ lastRet = <<>>
    /\ viewBefore = <<>>
    /\ searchedPending = FALSE

\* loadProducts() / loadGallery() up to the first await: fetchData builds the
\* url and calls fetch(url), once
CallLoad(kind) ==
    /\ fetchCalls < MaxCalls
    /\ fetchCalls' = fetchCalls + 1
    /\ requests' = requests + 1
    /\ pending' = [pending EXCEPT ![kind]["fetch"] = @ + 1]
    /\ UNCHANGED <<products, filteredProducts, galleryItems,
                   lastOp, lastLoad, lastQuery, lastRet, viewBefore, searchedPending>>

\* the load's continuation once fetchData has settled: loadProducts or
\* loadGallery run to their return
SettleLoad(kind, net, ok, body) ==
    LET res == fetchData(net, ok, body)
        lp  == loadProducts(res, products, filteredProducts)
        lg  == loadGallery(res, galleryItems)
    IN  /\ IF kind = "products"
           THEN /\ products' = lp.products
                /\ filteredProducts' = lp.filteredProducts
                /\ UNCHANGED galleryItems
           ELSE /\ galleryItems' = lg.galleryItems
                /\ UNCHANGED <<products, filteredProducts>>
        /\ lastOp' = "load"
        /\ lastLoad' = [kind |-> kind, net |-> net, ok |-> ok, body |-> body,
                        fetch |-> res,
                        promise |-> IF kind = "products" THEN lp.promise
                                                         ELSE lg.promise]
        /\ lastRet' = IF kind = "products" THEN lp.promise.value
                                           ELSE lg.promise.value
        /\ viewBefore' = filteredProducts
        /\ UNCHANGED <<lastQuery, requests, searchedPending>>

\* await fetch(url) settles: the request failed, or a response arrived; with
\* response.ok the call goes on to await response.json()
FetchRespond(kind, net, ok) ==
    /\ pending[kind]["fetch"] > 0
    /\ IF net = "ok" /\ ok
       THEN /\ pending' = [pending EXCEPT ![kind]["fetch"] = @ - 1,
                                          ![kind]["json"] = @ + 1]
            /\ UNCHANGED <<products, filteredProducts, galleryItems, requests,
                           lastOp, lastLoad, lastQuery, lastRet, viewBefore,
                           searchedPending>>
       ELSE /\ pending' = [pending EXCEPT ![kind]["fetch"] = @ - 1]
            /\ SettleLoad(kind, net, ok, NoBody)
    /\ UNCHANGED fetchCalls

\* await response.json() settles with the body
BodyRead(kind, body) ==
    /\ pending[kind]["json"] > 0
    /\ pending' = [pending EXCEPT ![kind]["json"] = @ - 1]
    /\ SettleLoad(kind, "ok", TRUE, body)
    /\ UNCHANGED fetchCalls

SearchProducts(query) ==
    /\ filteredProducts' = searchProducts(query, products, filteredProducts)
    /\ lastOp' = "search"
    /\ lastQuery' = query
    /\ lastRet' = filteredProducts'
    /\ viewBefore' = filteredProducts
    /\ searchedPending' = (pending["products"]["fetch"] + pending["products"]["json"] > 0)
    /\ UNCHANGED <<products, galleryItems, pending, fetchCalls, requests, lastLoad>>

FilterByCategory(category) ==
    /\ lastOp' = "filter"
    /\ lastQuery' = category
    /\ lastRet' = filterByCategory(category, galleryItems)
    /\ viewBefore' = filteredProducts
    /\ UNCHANGED <<products, filteredProducts, galleryItems, pending, fetchCalls,
                   requests, lastLoad, searchedPending>>


-----------------------------------------------------------------------------
(* Spec: one browsing session.  A page is loaded, its DOMContentLoaded     *)
(* handler runs, the two start-up loads settle in either order, cards are  *)
(* clicked, the contact form is submitted, timers fire.                    *)

MaxPendingSubmits == 1

\* the pages of the site: a route and the mount points its document has
Layouts ==
    { [route |-> "index.html", containers |-> {"featured-products", "featured-gallery"}],
      [route |-> "products.html", containers |-> {"products-container"}],
      [route |-> "products.html",
       containers |-> {"featured-products", "products-container"}],
      [route |-> "gallery.html", containers |-> {"gallery-container"}],
      [route |-> "gallery.html",
       containers |-> {"featured-gallery", "gallery-container"}],
      [route |-> "product-details.html", containers |-> {"details-container"}],
      [route |-> "surgery-details.html", containers |-> {"details-container"}],
      [route |-> "contact.html", containers |-> {"contact-form"}] }

NoPage == [route |-> "none", containers |-> {}]

StorageKeys == {"selectedProduct", "selectedSurgery"}

\* what a key may hold when the session's first page of this site loads:
\* nothing, a text that is not JSON, or the JSON text null
ForeignItems == { NoItem, Item(<<Tok("{")>>), Item(<<Tok("null")>>) }

\* initState: where App.init stands; settled: how each load's promise settled;
\* fetchFailed, fetched, order: what each load's fetchData met (whether it
\* threw, the records it returned) and the order in which the loads settled
NoApp == [initState |-> "none",
          settled |-> [k \in Kinds |-> "pending"],
          fetchFailed |-> [k \in Kinds |-> FALSE],
          fetched |-> [k \in Kinds |-> <<>>],
          order |-> <<>>]

NoHandler == [ranProductDetails |-> FALSE, ranSurgeryDetails |-> FALSE,
              fab |-> FALSE, uncaught |-> FALSE]

EmptyForm == [name |-> <<>>, email |-> <<>>, subject |-> <<>>, message |-> <<>>]

FormInputs ==
    { [name |-> <<"n">>, email |-> <<"a","@","b",".","c">>,
       subject |-> <<"s">>, message |-> <<"m">>],
      [name |-> <<"n">>, email |-> <<"@","@"," ",".","@">>,
       subject |-> <<"s">>, message |-> <<"m">>],
      [name |-> <<"n">>, email |-> <<"a","@","b",".","c">>,
       subject |-> <<>>, message |-> <<"m">>],
      [name |-> <<"n">>, email |-> <<"a","b">>,
       subject |-> <<"s">>, message |-> <<"m">>] }

\* the bodies a start-up fetch may read: one that is not JSON, an error
\* payload, an empty sheet and the two sheets with rows
StartupBodies(kind) ==
    { [json |-> "notjson", error |-> "absent", vals |-> NoGrid],
      [json |-> "object",  error |-> "truthy", vals |-> NoGrid],
      [json |-> "object",  error |-> "absent", vals |-> HeaderOnlyGrid] }
    \cup { [json |-> "object", error |-> "absent", vals |-> g] : g \in SheetGrids(kind) }

NoClick == [has |-> FALSE, of |-> "none", record |-> <<>>, route |-> "none",
            container |-> "none", index |-> 0]

NoTimers == [t \in {"bannerRemove", "contactSubmit"} |-> 0]

\* the script's state when a document starts loading
FreshScript ==
    /\ win = BlankWindow
    /\ app = NoApp
    /\ handler = NoHandler
    /\ globalErrors = 0
    /\ bannersShown = 0
    /\ timers = NoTimers
    /\ formMessage = ""
    /\ formData = EmptyForm

PageIdle ==
    /\ page = NoPage
    /\ phase = "none"
    /\ storage = [k \in StorageKeys |-> NoItem]
    /\ clicked = NoClick
    /\ FreshScript

Init ==
    /\ values = NoGrid
    /\ parsed = [done |-> FALSE, result |-> <<>>]
    /\ CatalogIdle
    /\ page = NoPage
    /\ phase = "none"
    /\ storage \in [StorageKeys -> ForeignItems]
    /\ clicked = NoClick
    /\ FreshScript
    /\ ImagesIdle
    /\ WorkerIdle

managerGhosts == <<lastOp, lastLoad, lastQuery, lastRet, viewBefore, searchedPending>>

\* a new document: every script variable starts over, sessionStorage stays
LoadDocument(layout) ==
    /\ page' = layout
    /\ phase' = "loading"
    /\ products' = <<>>
    /\ filteredProducts' = <<>>
    /\ galleryItems' = <<>>
    /\ pending' = [k \in Kinds |-> [p \in {"fetch", "json"} |-> 0]]
    /\ fetchCalls' = 0
    /\ requests' = 0
    /\ win' = BlankWindow
    /\ app' = NoApp
    /\ handler' = NoHandler
    /\ globalErrors' = 0
    /\ bannersShown' = 0
    /\ timers' = NoTimers
    /\ formMessage' = ""
    /\ formData' = EmptyForm

\* the user opens a page of the site (address bar, link, back, reload)
Navigate(layout) ==
    /\ LoadDocument(layout)
    /\ clicked' = NoClick
    /\ UNCHANGED <<storage, parseVars, imageVars, workerVars, managerGhosts>>

\* the DOMContentLoaded handler: new App() (whose init() starts both loads
\* and suspends), renderProductDetails(), renderSurgeryDetails(),
\* createAppointmentFAB(); an exception ends the handler where it is thrown
DOMContentLoaded ==
    /\ phase = "loading"
    /\ phase' = "ready"
    /\ app' = [NoApp EXCEPT !.initState = "waiting"]
    /\ pending' = [k \in Kinds |-> [p \in {"fetch", "json"} |->
                                       IF p = "fetch" THEN 1 ELSE 0]]
    /\ fetchCalls' = fetchCalls + 2
    /\ requests' = requests + 2
    /\ LET pd == renderProductDetails(win, page, storage)
           sd == renderSurgeryDetails(pd.w, page, storage)
       IN  IF pd.threw
           THEN /\ win' = win
                /\ handler' = [ranProductDetails |-> TRUE, ranSurgeryDetails |-> FALSE,
                               fab |-> FALSE, uncaught |-> TRUE]
           ELSE IF sd.threw
           THEN /\ win' = pd.w
                /\ handler' = [ranProductDetails |-> TRUE, ranSurgeryDetails |-> TRUE,
                               fab |-> FALSE, uncaught |-> TRUE]
           ELSE /\ win' = sd.w
                /\ handler' = [ranProductDetails |-> TRUE, ranSurgeryDetails |-> TRUE,
                               fab |-> TRUE, uncaught |-> FALSE]
    /\ UNCHANGED <<page, storage, clicked, products, filteredProducts, galleryItems,
                   globalErrors, bannersShown, timers, formMessage, formData,
                   parseVars, imageVars, workerVars, managerGhosts>>

\* a start-up load settles: loadProducts / loadGallery run to their return
\* and, in the same turn, App.init resumes when Promise.all settles: it
\* rejects with the first rejected load and fulfils when both have resolved
SettleStartupLoad(kind, net, ok, body) ==
    LET res == fetchData(net, ok, body)
        lp  == loadProducts(res, products, filteredProducts)
        lg  == loadGallery(res, galleryItems)
        promise  == IF kind = "products" THEN lp.promise ELSE lg.promise
        filtered == IF kind = "products" THEN lp.filteredProducts ELSE filteredProducts
        items    == IF kind = "products" THEN galleryItems ELSE lg.galleryItems
        settled  == [app.settled EXCEPT ![kind] = promise.settled]
        failed   == [app.fetchFailed EXCEPT ![kind] = res.threw]
        settledApp == [app EXCEPT !.settled = settled, !.fetchFailed = failed,
                                  !.fetched[kind] = res.value,
                                  !.order = Append(@, kind)]
    IN  /\ IF kind = "products"
           THEN /\ products' = lp.products
                /\ filteredProducts' = lp.filteredProducts
                /\ UNCHANGED galleryItems
           ELSE /\ galleryItems' = lg.galleryItems
                /\ UNCHANGED <<products, filteredProducts>>
        /\ IF app.initState = "waiting" /\ PromiseAll(settled) = "rejected"
           THEN \* catch (error): showErrorToUser appends a banner and
                \* arms its removal
                /\ app' = [settledApp EXCEPT !.initState = "failed"]
                /\ globalErrors' = globalErrors + 1
                /\ bannersShown' = bannersShown + 1
                /\ timers' = [timers EXCEPT !["bannerRemove"] = @ + 1]
                /\ UNCHANGED win
           ELSE IF app.initState = "waiting" /\ PromiseAll(settled) = "fulfilled"
           THEN /\ app' = [settledApp EXCEPT !.initState = "rendered"]
                /\ win' = initRender(win, page, filtered, items)
                /\ UNCHANGED <<globalErrors, bannersShown, timers>>
           ELSE /\ app' = settledApp
                /\ UNCHANGED <<win, globalErrors, bannersShown, timers>>

StartupFetchRespond(kind, net, ok) ==
    /\ phase = "ready"
    /\ pending[kind]["fetch"] > 0
    /\ IF net = "ok" /\ ok
       THEN /\ pending' = [pending EXCEPT ![kind]["fetch"] = @ - 1,
                                          ![kind]["json"] = @ + 1]
            /\ UNCHANGED <<products, filteredProducts, galleryItems, win, app,
                           globalErrors, bannersShown, timers>>
       ELSE /\ pending' = [pending EXCEPT ![kind]["fetch"] = @ - 1]
            /\ SettleStartupLoad(kind, net, ok, NoBody)
    /\ UNCHANGED <<page, phase, storage, clicked, handler, fetchCalls, requests,
                   formMessage, formData, parseVars, imageVars, workerVars, managerGhosts>>

StartupBodyRead(kind, body) ==
    /\ phase = "ready"
    /\ pending[kind]["json"] > 0
    /\ pending' = [pending EXCEPT ![kind]["json"] = @ - 1]
    /\ SettleStartupLoad(kind, "ok", TRUE, body)
    /\ UNCHANGED <<page, phase, storage, clicked, handler, fetchCalls, requests,
                   formMessage, formData, parseVars, imageVars, workerVars, managerGhosts>>

\* the user clicks the card at position pos of a container: its onclick runs
\* goToProduct(index) or goToSurgery(index)
ClickCard(c, pos) ==
    /\ phase = "ready"
    /\ c \in page.containers
    /\ win.dom[c].view = "cards"
    /\ pos \in 1..Len(win.dom[c].cards)
    /\ LET card == win.dom[c].cards[pos]
           of   == win.dom[c].of
           data == IF of = "products" THEN win.productsData ELSE win.galleryData
           key  == IF of = "products" THEN "selectedProduct" ELSE "selectedSurgery"
           to   == IF of = "products" THEN "product-details.html"
                                      ELSE "surgery-details.html"
           go   == goToIndex(data, card.index)
       IN  /\ go.found
           /\ storage' = [storage EXCEPT ![key] = Item(go.text)]
           /\ \E layout \in Layouts : layout.route = to /\ LoadDocument(layout)
           /\ clicked' = [has |-> TRUE, of |-> of, record |-> card.record,
                          route |-> page.route, container |-> c,
                          index |-> card.index]
    /\ UNCHANGED <<parseVars, imageVars, workerVars, managerGhosts>>

\* goToProduct(index) / goToSurgery(index) called with an index no card of
\* the page carries (the two functions are globals)
GoTo(of, index) ==
    /\ phase = "ready"
    /\ LET data == IF of = "products" THEN win.productsData ELSE win.galleryData
           key  == IF of = "products" THEN "selectedProduct" ELSE "selectedSurgery"
           to   == IF of = "products" THEN "product-details.html"
                                      ELSE "surgery-details.html"
           go   == goToIndex(data, index)
       IN  IF go.found
           THEN /\ storage' = [storage EXCEPT ![key] = Item(go.text)]
                /\ \E layout \in Layouts : layout.route = to /\ LoadDocument(layout)
                /\ clicked' = [has |-> TRUE, of |-> of,
                               record |-> JSONparse(go.text).value,
                               route |-> page.route, container |-> "none",
                               index |-> index]
           ELSE /\ UNCHANGED <<page, phase, storage, clicked, win, app, handler, globalErrors,
                               bannersShown, timers, formMessage, formData,
                               products, filteredProducts, galleryItems, pending,
                               fetchCalls, requests>>
    /\ UNCHANGED <<parseVars, imageVars, workerVars, managerGhosts>>

\* ContactForm.handleSubmit up to its await (or its early return)
SubmitContactForm(data) ==
    /\ phase = "ready"
    /\ "contact-form" \in page.containers
    /\ timers["contactSubmit"] < MaxPendingSubmits
    /\ formData' = data
    /\ IF validateForm(data) # "ok"
       THEN /\ formMessage' = validateForm(data)
            /\ UNCHANGED timers
       ELSE /\ formMessage' = "Sending message..."
            /\ timers' = [timers EXCEPT !["contactSubmit"] = @ + 1]
    /\ UNCHANGED <<page, phase, storage, clicked, win, app, handler, globalErrors,
                   bannersShown, products, filteredProducts, galleryItems, pending,
                   fetchCalls, requests, parseVars, imageVars, workerVars, managerGhosts>>

\* a timer set by setTimeout fires: the banner's removal after 5000 ms, or
\* simulateSubmission's 1000 ms, after which handleSubmit shows the success
\* message and resets the form
TimerFire(t) ==
    /\ timers[t] > 0
    /\ timers' = [timers EXCEPT ![t] = @ - 1]
    /\ IF t = "bannerRemove"
       THEN /\ globalErrors' = globalErrors - 1
            /\ UNCHANGED <<formMessage, formData>>
       ELSE /\ formMessage' = "Thank you! Your message has been sent successfully."
            /\ formData' = EmptyForm
            /\ UNCHANGED globalErrors
    /\ UNCHANGED <<page, phase, storage, clicked, win, app, handler, bannersShown,
                   products, filteredProducts, galleryItems, pending, fetchCalls,
                   requests, parseVars, imageVars, workerVars, managerGhosts>>

Next ==
    \/ \E layout \in Layouts : Navigate(layout)
    \/ DOMContentLoaded
    \/ \E kind \in Kinds, net \in {"fail", "ok"}, ok \in BOOLEAN :
           StartupFetchRespond(kind, net, ok)
    \/ \E kind \in Kinds : \E body \in StartupBodies(kind) : StartupBodyRead(kind, body)
    \/ \E c \in ContainerNames, pos \in 1..4 : ClickCard(c, pos)
    \/ \E of \in Kinds, index \in {-1, 0, 4} : GoTo(of, index)
    \/ \E data \in FormInputs : SubmitContactForm(data)
    \/ \E t \in {"bannerRemove", "contactSubmit"} : TimerFire(t)

Spec == Init /\ [][Next]_vars

-----------------------------------------------------------------------------
(* SpecCatalog: the managers alone, no page                                *)

InitCatalog ==
    /\ values = NoGrid
    /\ parsed = [done |-> FALSE, result |-> <<>>]
    /\ CatalogIdle
    /\ PageIdle
    /\ ImagesIdle
    /\ WorkerIdle

NextCatalog ==
    \/ \E kind \in Kinds : CallLoad(kind) /\ UNCHANGED <<parseVars, imageVars, workerVars, pageVars>>
    \/ \E kind \in Kinds, net \in {"fail", "ok"}, ok \in BOOLEAN :
           FetchRespond(kind, net, ok) /\ UNCHANGED <<parseVars, imageVars, workerVars, pageVars>>
    \/ \E kind \in Kinds : \E body \in Bodies(kind) :
           BodyRead(kind, body) /\ UNCHANGED <<parseVars, imageVars, workerVars, pageVars>>
    \/ \E query \in Queries : SearchProducts(query) /\ UNCHANGED <<parseVars, imageVars, workerVars, pageVars>>
    \/ \E category \in Categories : FilterByCategory(category) /\ UNCHANGED <<parseVars, imageVars, workerVars, pageVars>>

SpecCatalog == InitCatalog /\ [][NextCatalog]_vars

-----------------------------------------------------------------------------
(* Claims about the managers, checked under SpecCatalog                    *)

\* the fetch of the load that completed last ended in an error, in the
\* claims' terms: a network failure, a non-success status, an error payload
FetchEndedInError(l) ==
    \/ l.net = "fail"
    \/ ~l.ok
    \/ (l.body.json = "object" /\ l.body.error = "truthy")

\* C1: a load (loadProducts or loadGallery) never rejects; when its fetch
\* ends in an error it resolves to the empty list.
C1_LoadNeverRejects ==
    lastOp = "load" =>
        /\ lastLoad.promise.settled = "resolved"
        /\ (FetchEndedInError(lastLoad) \/ lastLoad.fetch.threw)
               => (lastLoad.promise.value = <<>> /\ lastRet = <<>>)

\* a gallery load and a product load each failed after an earlier success
C1_Witness ==
    /\ lastOp = "load"
    /\ lastLoad.net = "fail"
    /\ lastLoad.promise = Resolved(<<>>)
    /\ Len(products) + Len(galleryItems) > 0

\* C3 as stated: one request per call, and fetchData throws exactly on a
\* network failure, a non-success status or a body carrying an error field.
C3_Original ==
    /\ requests = fetchCalls
    /\ lastOp = "load" =>
           /\ lastLoad.fetch.threw <=>
                  \/ lastLoad.net = "fail"
                  \/ ~lastLoad.ok
                  \/ (lastLoad.body.json = "object" /\ lastLoad.body.error # "absent")
           /\ ~lastLoad.fetch.threw =>
                  lastLoad.fetch.value = parseSheetData(lastLoad.body.vals)

\* C3 amended: one request per call, and fetchData throws exactly on a
\* network failure, a non-success status, a body that is not JSON or is the
\* JSON null, or a body whose error field is truthy; otherwise it returns the
\* parsed records of the body's values grid.
C3_FetchData ==
    /\ requests = fetchCalls
    /\ lastOp = "load" =>
           /\ lastLoad.fetch.threw <=>
                  \/ lastLoad.net = "fail"
                  \/ ~lastLoad.ok
                  \/ lastLoad.body.json \in {"notjson", "null"}
                  \/ (lastLoad.body.json = "object" /\ lastLoad.body.error = "truthy")
           /\ ~lastLoad.fetch.threw =>
                  lastLoad.fetch.value = parseSheetData(lastLoad.body.vals)

\* a second call's response had a non-success status and the call threw
C3_Witness ==
    /\ lastOp = "load"
    /\ requests = 2
    /\ lastLoad.net = "ok"
    /\ ~lastLoad.ok
    /\ lastLoad.fetch.threw

RECURSIVE IsSubsequence(_, _)
IsSubsequence(f, p) ==
    IF f = <<>> THEN TRUE
    ELSE IF p = <<>> THEN FALSE
    ELSE IF Head(f) = Head(p) THEN IsSubsequence(Tail(f), Tail(p))
    ELSE IsSubsequence(f, Tail(p))

\* C4: in every state reachable by loads (succeeding or failing) and
\* searches, filteredProducts is an order-preserving sub-list of products.
C4_FilteredIsSublist == IsSubsequence(filteredProducts, products)

\* a load failed while a search had narrowed the view
C4_Witness ==
    /\ lastOp = "load"
    /\ lastLoad.kind = "products"
    /\ lastLoad.fetch.threw
    /\ Len(products) = 4
    /\ Len(filteredProducts) \in 1..3

\* a step that is a searchProducts call
IsSearchStep ==
    /\ lastOp' = "search"
    /\ pending' = pending
    /\ fetchCalls' = fetchCalls

\* C5: a search with an empty or absent query sets and returns the full list
\* as fetched, whatever the view was; and a search repeated with the same
\* query gives the view the first one gave.
C5_SearchResets ==
    [][ IsSearchStep =>
          /\ Falsy(lastQuery') =>
                 (filteredProducts' = products /\ lastRet' = products)
          /\ (lastOp = "search" /\ lastQuery' = lastQuery) =>
                 (filteredProducts' = filteredProducts /\ lastRet' = lastRet) ]_vars

\* an empty query reset a view that an earlier search had narrowed
C5_Witness ==
    /\ lastOp = "search"
    /\ Falsy(lastQuery)
    /\ Len(products) = 4
    /\ Len(viewBefore) \in 1..3
    /\ filteredProducts = products

SearchFields ==
    { PRODUCT_COLUMNS_NAME, PRODUCT_COLUMNS_DESCRIPTION, PRODUCT_COLUMNS_BRAND,
      PRODUCT_COLUMNS_SHAPE, PRODUCT_COLUMNS_MATERIAL }

\* q occurs in v, both lower-cased
OccursIgnoringCase(q, v) ==
    \E off \in 0..(Len(v) - Len(q)) :
        \A j \in 1..Len(q) : LowerChar(v[off + j]) = LowerChar(q[j])

\* the elements of list at the positions idx, in list order
Selected(list, idx) ==
    [k \in 1..Cardinality(idx) |->
        list[CHOOSE i \in idx : Cardinality({j \in idx : j <= i}) = k]]

\* C6: a search with a non-empty query returns exactly the products one of
\* whose name, description, brand, shape or material contains the query,
\* ignoring case, in table order; a record lacking a field does not match on it.
C6_SearchMatches ==
    (lastOp = "search" /\ ~Falsy(lastQuery)) =>
        LET hits == { i \in 1..Len(products) :
                        \E f \in SearchFields :
                            /\ HasField(products[i], f)
                            /\ OccursIgnoringCase(lastQuery, Get(products[i], f)) }
        IN  /\ lastRet = Selected(products, hits)
            /\ filteredProducts = lastRet

\* the query "Ti" found three of four products: by name, by shape in another
\* case, and not the one-field record
C6_Witness ==
    /\ lastOp = "search"
    /\ lastQuery = <<"T","i">>
    /\ Len(products) = 4
    /\ Len(lastRet) = 3
    /\ lastRet[2] = products[2]
    /\ lastRet[3] = products[4]

\* C7: filterByCategory returns the gallery items whose category equals the
\* argument ignoring case, in table order, computed from the full list; an
\* empty or absent category gives the full list.
C7_FilterByCategory ==
    lastOp = "filter" =>
        LET hits == { i \in 1..Len(galleryItems) :
                        /\ HasField(galleryItems[i], GALLERY_COLUMNS_CATEGORY)
                        /\ ToLowerCase(Get(galleryItems[i], GALLERY_COLUMNS_CATEGORY))
                               = ToLowerCase(lastQuery) }
        IN  /\ lastRet = IF Falsy(lastQuery) THEN galleryItems
                                             ELSE Selected(galleryItems, hits)
            /\ IsSubsequence(lastRet, galleryItems)

\* "LAS" kept the two "las" items of four and not the "la" one
C7_Witness ==
    /\ lastOp = "filter"
    /\ lastQuery = <<"L","A","S">>
    /\ Len(galleryItems) = 4
    /\ Len(lastRet) = 2
    /\ lastRet = <<galleryItems[1], galleryItems[2]>>

\* product loads in flight
PendingProducts == pending["products"]["fetch"] + pending["products"]["json"]

C20_Step ==
    /\ (IsSearchStep /\ PendingProducts > 0 /\ products = <<>>) =>
           (filteredProducts' = <<>> /\ lastRet' = <<>>)
    /\ ( /\ lastOp' = "load"
         /\ lastLoad'.kind = "products"
         /\ pending'["products"]["fetch"] + pending'["products"]["json"]
                < PendingProducts ) =>
           IF lastLoad'.fetch.threw
           THEN products' = products /\ filteredProducts' = filteredProducts
           ELSE /\ products' = parseSheetData(lastLoad'.body.vals)
                /\ filteredProducts' = products'

\* C20: a search made while the product load waits for its fetch filters the
\* still empty list; a fetch that then succeeds overwrites the filtered view
\* with the whole fetched list, whatever the search had left; a fetch that
\* ends in an error leaves the full list and the filtered view as they were.
C20_SearchDuringLoad == [][C20_Step]_vars

\* the only load so far was searched during its wait, and it ended with all
\* four fetched products in the view
C20_Witness ==
    /\ lastOp = "load"
    /\ lastLoad.kind = "products"
    /\ ~lastLoad.fetch.threw
    /\ fetchCalls = 1
    /\ searchedPending
    /\ lastQuery = <<"t","i">>
    /\ Len(products) = 4
    /\ filteredProducts = products

-----------------------------------------------------------------------------
(* Claims about a browsing session, checked under Spec                     *)

KeyOf(of)   == IF of = "products" THEN "selectedProduct" ELSE "selectedSurgery"
RouteOf(of) == IF of = "products" THEN "product-details.html"
                                  ELSE "surgery-details.html"

\* C8: a click on a card rendered by the start-up sequence stores, under
\* its kind's session key, exactly the record the card displays and brings up
\* the kind's detail page, which on load reads back that same record.
C8_ClickHandoff ==
    clicked.has =>
        /\ page.route = RouteOf(clicked.of)
        /\ storage[KeyOf(clicked.of)].has
        /\ JSONparse(storage[KeyOf(clicked.of)].text) = ParsedObject(clicked.record)
        /\ phase = "ready" =>
               /\ ~handler.uncaught
               /\ win.dom["details-container"] = Detail(clicked.of, clicked.record)

\* on a products page that also has the preview section (so the full-list
\* render overwrote window.productsData), the preview's third card was
\* clicked and the detail page shows its record
C8_Witness ==
    /\ clicked.has
    /\ clicked.of = "products"
    /\ clicked.route = "products.html"
    /\ clicked.container = "featured-products"
    /\ clicked.index = 2
    /\ Get(clicked.record, PRODUCT_COLUMNS_NAME) = <<"B">>
    /\ phase = "ready"
    /\ win.dom["details-container"] = Detail("products", clicked.record)

\* C9 as stated: on a detail page whose session key holds nothing or a text
\* that does not deserialize, the page shows the "nothing selected" state, no
\* error escapes, and the rest of the handler (the other detail renderer and
\* the appointment button) runs.
C9_Original ==
    \A of \in Kinds :
        ( /\ phase = "ready"
          /\ page.route = RouteOf(of)
          /\ "details-container" \in page.containers
          /\ (~storage[KeyOf(of)].has \/ ~JSONparse(storage[KeyOf(of)].text).ok) )
        => /\ win.dom["details-container"] = NothingSelected(of)
           /\ ~handler.uncaught
           /\ handler.ranProductDetails
           /\ handler.ranSurgeryDetails
           /\ handler.fab

\* C10 as stated: when both start-up loads have failed, one global error
\* banner has been shown, and it stays only until its removal timer fires.
C10_Original ==
    ( /\ \A k \in Kinds : app.settled[k] # "pending"
      /\ \A k \in Kinds : app.fetchFailed[k] )
    => /\ bannersShown = 1
       /\ globalErrors = timers["bannerRemove"]

PreviewOf(of)   == IF of = "products" THEN "featured-products" ELSE "featured-gallery"
FullOf(of)      == IF of = "products" THEN "products-container" ELSE "gallery-container"
FullRouteOf(of) == IF of = "products" THEN "products.html" ELSE "gallery.html"
OtherKind(of)   == IF of = "products" THEN "gallery" ELSE "products"

\* what a container shows once `list` has been rendered into it
Shows(of, list) == IF list = <<>> THEN NoResults(of) ELSE Cards(of, list)

BothSettled == \A k \in Kinds : app.settled[k] # "pending"

\* C11: when exactly one of the two start-up loads failed, in either order of
\* completion, start-up completes: the catalog that loaded shows its preview
\* (and its full list on its own route) from the records fetched, the one that
\* failed shows an empty "no results" list.
C11_FailureIsolated ==
    \A good \in Kinds :
        LET bad == OtherKind(good)
        IN  ( /\ BothSettled
              /\ app.fetchFailed[bad]
              /\ ~app.fetchFailed[good] )
            => /\ app.initState = "rendered"
               /\ PreviewOf(bad) \in page.containers =>
                      win.dom[PreviewOf(bad)] = NoResults(bad)
               /\ (FullOf(bad) \in page.containers /\ page.route = FullRouteOf(bad)) =>
                      win.dom[FullOf(bad)] = NoResults(bad)
               /\ PreviewOf(good) \in page.containers =>
                      win.dom[PreviewOf(good)]
                          = Shows(good, SubSeq(app.fetched[good], 1,
                                               IF Len(app.fetched[good]) < 3
                                               THEN Len(app.fetched[good]) ELSE 3))
               /\ (FullOf(good) \in page.containers /\ page.route = FullRouteOf(good)) =>
                      win.dom[FullOf(good)] = Shows(good, app.fetched[good])

\* on the home page the gallery loaded four items first, then the product
\* fetch failed: three gallery cards next to an empty product list
C11_Witness ==
    /\ page.route = "index.html"
    /\ app.order = <<"gallery", "products">>
    /\ app.fetchFailed["products"]
    /\ ~app.fetchFailed["gallery"]
    /\ Len(app.fetched["gallery"]) = 4
    /\ win.dom["featured-gallery"].view = "cards"
    /\ Len(win.dom["featured-gallery"].cards) = 3
    /\ win.dom["featured-products"] = NoResults("products")

\* local@domain.tld: an '@' and a later '.', each with at least one character
\* on both sides, and neither space nor a second '@' anywhere
WellFormedEmail(e) ==
    \E at \in 1..Len(e), dot \in 1..Len(e) :
        /\ 1 < at /\ at + 1 < dot /\ dot < Len(e)
        /\ e[at] = "@"
        /\ e[dot] = "."
        /\ \A j \in 1..Len(e) : ~IsSpace(e[j]) /\ (e[j] = "@" => j = at)

\* C16 as stated, its first half: once the form has been submitted with a
\* name, a subject, a message and a well-formed address, the submission is
\* under way (the form shows that it is sending and the simulated delay is
\* running) until the success message appears and the form is reset.
C16_Original ==
    ( /\ phase = "ready"
      /\ "contact-form" \in page.containers
      /\ formData.name # <<>> /\ formData.subject # <<>> /\ formData.message # <<>>
      /\ WellFormedEmail(formData.email) )
    => /\ formMessage = "Sending message..."
       /\ timers["contactSubmit"] > 0

CatalogContainers ==
    { "featured-products", "featured-gallery", "products-container",
      "gallery-container" }

\* C17: no preview and no full list of either catalog is rendered before both
\* start-up loads have settled, whichever settles first; and once both have
\* settled the start-up render has happened.
C17_RenderJoined ==
    /\ (\E c \in CatalogContainers : win.dom[c] # Blank) => BothSettled
    /\ (win.productsData.set \/ win.galleryData.set) => BothSettled
    /\ ~BothSettled => app.initState \in {"none", "waiting"}
    /\ (phase = "ready" /\ BothSettled) =>
           /\ app.initState = "rendered"
           /\ \A k \in Kinds :
                  PreviewOf(k) \in page.containers => win.dom[PreviewOf(k)] # Blank

\* on the home page the products have loaded, four of them, the gallery load
\* is still out, and nothing is rendered
C17_Witness ==
    /\ phase = "ready"
    /\ page.route = "index.html"
    /\ app.settled["products"] = "resolved"
    /\ app.settled["gallery"] = "pending"
    /\ Len(products) = 4
    /\ win.dom["featured-products"] = Blank
    /\ win.dom["featured-gallery"] = Blank

KindOfKey(k) == IF k = "selectedProduct" THEN "products" ELSE "gallery"

\* the step is a call of goToProduct / goToSurgery that found a record
IsHandoffStep == clicked'.has /\ clicked' # clicked

C19_Step ==
    /\ \A k \in StorageKeys :
           storage'[k] # storage[k] => (IsHandoffStep /\ clicked'.of = KindOfKey(k))
    /\ IsHandoffStep =>
           LET of   == clicked'.of
               data == IF of = "products" THEN win.productsData ELSE win.galleryData
           IN  /\ data.set
               /\ clicked'.index \in 0..(Len(data.list) - 1)
               /\ storage'[KeyOf(of)] = Item(JSONstringify(data.list[clicked'.index + 1]))
               /\ storage'[KeyOf(OtherKind(of))] = storage[KeyOf(OtherKind(of))]
               /\ page'.route = RouteOf(of)
               /\ phase' = "loading"

\* C19: the value under a kind's handoff key changes only by a click of that
\* kind on an index that has a record in the rendered list, which stores that
\* record and leaves the other key alone; loading a detail page, or anything
\* else, leaves both keys as they are; only an index that has a record makes
\* goToProduct / goToSurgery write and load a page.
C19_HandoffFrame == [][C19_Step]_vars

\* the product detail page, opened again without a click, shows the product
\* selected earlier, and the surgery selected in between is still stored
C19_Witness ==
    /\ phase = "ready"
    /\ page.route = "product-details.html"
    /\ ~clicked.has
    /\ win.dom["details-container"].view = "detail"
    /\ win.dom["details-container"].of = "products"
    /\ storage["selectedSurgery"].has
    /\ JSONparse(storage["selectedSurgery"].text).ok
    /\ ~JSONparse(storage["selectedSurgery"].text).null

-----------------------------------------------------------------------------
(* SpecImages: a product record from a bounded family is handed to         *)
(* getProductImages and to the detail view, whose thumbnails are clicked   *)

\* what an image column of a record may hold; "absent" stands for a record
\* without the field
ImageCells ==
    { <<"absent">>, <<>>, <<" ">>, <<"a">>, <<" ","b"," ">>, <<"c","'","d">> }

\* the record with the given cells under the three image fields
ImageRecord(c1, c2, c3) ==
    LET cells == <<c1, c2, c3>>
        Present(i) == cells[i] # <<"absent">>
        kept == SelectSeq(<<1, 2, 3>>, Present)
    IN  [k \in 1..Len(kept) |-> <<imageFields[kept[k]], cells[kept[k]]>>]

ImageRecords ==
    { ImageRecord(c1, c2, c3) : c1 \in ImageCells, c2 \in ImageCells, c3 \in ImageCells }

InitImages ==
    /\ values = NoGrid
    /\ parsed = [done |-> FALSE, result |-> <<>>]
    /\ CatalogIdle
    /\ PageIdle
    /\ WorkerIdle
    /\ productRecord \in ImageRecords
    /\ images = NoImages
    /\ detail = NoDetail

\* this.getProductImages(product)
GetProductImages ==
    /\ ~images.done
    /\ images' = [done |-> TRUE, list |-> getProductImages(productRecord)]
    /\ UNCHANGED <<productRecord, detail>>
    /\ UNCHANGED <<parseVars, catalogVars, pageVars, workerVars>>

\* renderProductDetails with the record as the stored selection
RenderDetailImages ==
    /\ ~detail.rendered
    /\ detail' = detailImageBlock(productRecord)
    /\ UNCHANGED <<productRecord, images>>
    /\ UNCHANGED <<parseVars, catalogVars, pageVars, workerVars>>

\* the user clicks the thumbnail at position pos: its onclick text is run
ClickThumbnail(pos) ==
    /\ detail.rendered
    /\ pos \in 1..Len(detail.thumbs)
    /\ LET call  == detail.thumbs[pos].onclick
           after == IF call.ok
                    THEN changeDetailImage(detail, call.imageUrl, call.index)
                    ELSE detail
       IN  detail' = [after EXCEPT !.lastClicked = pos]
    /\ UNCHANGED <<productRecord, images>>
    /\ UNCHANGED <<parseVars, catalogVars, pageVars, workerVars>>

NextImages ==
    \/ GetProductImages
    \/ RenderDetailImages
    \/ \E pos \in 1..3 : ClickThumbnail(pos)

SpecImages == InitImages /\ [][NextImages]_vars

\* v without the space characters at its ends
Stripped(v) ==
    LET inked == { j \in 1..Len(v) : ~IsSpace(v[j]) }
        first == CHOOSE j \in inked : \A m \in inked : j <= m
        last  == CHOOSE j \in inked : \A m \in inked : m <= j
    IN  IF inked = {} THEN <<>> ELSE SubSeq(v, first, last)

\* the image fields the record has with something other than space in them
InkedFields(item) ==
    { i \in 1..3 : /\ HasField(item, imageFields[i])
                   /\ \E j \in 1..Len(Get(item, imageFields[i])) :
                          ~IsSpace(Get(item, imageFields[i])[j]) }

\* C12: getProductImages returns the trimmed values of the image fields that
\* are non-empty after trimming, in the order image 1, 2, 3, or one
\* placeholder when all three are empty, blank or absent; never an empty list.
C12_GetProductImages ==
    images.done =>
        LET inked == InkedFields(productRecord)
            urls  == [i \in 1..3 |-> Stripped(Get(productRecord, imageFields[i]))]
        IN  /\ Len(images.list) >= 1
            /\ images.list = IF inked = {} THEN <<PLACEHOLDER_CARD>>
                                            ELSE Selected(urls, inked)

\* a record with a blank first image and a padded second one gave the
\* second, trimmed, then the third
C12_Witness ==
    /\ images.done
    /\ Get(productRecord, PRODUCT_COLUMNS_IMAGE_1) = <<" ">>
    /\ Get(productRecord, PRODUCT_COLUMNS_IMAGE_2) = <<" ","b"," ">>
    /\ images.list = << <<"b">>, <<"a">> >>

\* C18 as stated: on a detail view with thumbnails, before any click the
\* first thumbnail, and after clicks the one clicked last, is the only one
\* marked active, and the main image's source is that thumbnail's image.
C18_Original ==
    (detail.rendered /\ Len(detail.thumbs) > 0) =>
        LET current == IF detail.lastClicked = 0 THEN 1 ELSE detail.lastClicked
        IN  /\ \A k \in 1..Len(detail.thumbs) : detail.thumbs[k].active <=> (k = current)
            /\ detail.main = detail.thumbs[current].src

-----------------------------------------------------------------------------
(* SpecWorker: the service worker (service-worker.js).  It is installed,   *)
(* activated, and then answers the page's fetch events; every promise it   *)
(* waits for settles in a step of its own, so the events interleave.       *)

MaxFetchEvents == 2

CACHE_NAME == "vision-care-cache-v2"

\* the caches the origin may hold when the worker is installed
CacheNames == { CACHE_NAME, "vision-care-cache-v1", "other-cache" }

\* the requests of the model: a sheet read, a file of ASSETS_TO_CACHE, and a
\* file of another host that is not in ASSETS_TO_CACHE
SheetsRequest == [hostname |-> "sheets.googleapis.com", url |-> "values/Products"]
AssetRequest  == [hostname |-> "self", url |-> "./index.html"]
ImageRequest  == [hostname |-> "images.example", url |-> "photo.jpg"]

Requests == { SheetsRequest, AssetRequest, ImageRequest }

ASSETS_TO_CACHE == { AssetRequest }

\* a response is known by its status and by the network request that
\* fetched it: the number of the fetch event, 0 for the install's addAll,
\* -1 for what an earlier worker left behind
NoResponse == [status |-> 0, id |-> 0]
Response(status, id) == [status |-> status, id |-> id]

NoCache == [exists |-> FALSE, entries |-> [r \in Requests |-> NoResponse]]
EmptyCache == [exists |-> TRUE, entries |-> [r \in Requests |-> NoResponse]]
StaleCache == [exists |-> TRUE, entries |-> [r \in Requests |-> Response(200, -1)]]

\* a plausible slip: no request is taken for a sheet read
isSheetsRequestNever(req) == FALSE

\* url.hostname === 'sheets.googleapis.com'
isSheetsRequest(req) == req.hostname = "sheets.googleapis.com"

\* a plausible slip: every answer of the network is stored
isCacheableAlways(response) == TRUE

\* networkResponse && networkResponse.status === 200
isCacheable(response) == response.status = 200

\* a plausible slip: only the previous version's cache is cleaned up
isOldCachePreviousOnly(cacheName) == cacheName = "vision-care-cache-v1"

\* cacheName !== CACHE_NAME
isOldCache(cacheName) == cacheName # CACHE_NAME

\* caches.match(request): the response stored for the request in the first
\* cache that has one, NoResponse (undefined) when no cache has
cachesMatch(cs, req) ==
    IF cs[CACHE_NAME].exists /\ cs[CACHE_NAME].entries[req] # NoResponse
    THEN cs[CACHE_NAME].entries[req]
    ELSE IF \E n \in CacheNames : cs[n].exists /\ cs[n].entries[req] # NoResponse
    THEN cs[CHOOSE n \in CacheNames : cs[n].exists /\ cs[n].entries[req] # NoResponse]
             .entries[req]
    ELSE NoResponse

\* caches.open(name): the cache is created when it does not exist
cachesOpen(cs, name) ==
    IF cs[name].exists THEN cs ELSE [cs EXCEPT ![name] = EmptyCache]

\* cache.put(request, response) on caches.open(name)
cachePut(cs, name, req, response) ==
    [cachesOpen(cs, name) EXCEPT ![name].entries[req] = response]

\* caches.delete(name)
cachesDelete(cs, name) == [cs EXCEPT ![name] = NoCache]

NoActivation == [started |-> FALSE, keys |-> {}, deleted |-> {}]

\* what the page got for a fetch event
NotAnswered == [by |-> "none", response |-> NoResponse]
Answered(by, response) == [by |-> by, response |-> response]

\* a fetch event: where its handler stands ("match", "net", "fallback",
\* "done"), whether it asked the network and what came of it, what the
\* current cache held for the request when the handler looked, what it
\* answered, and the state of the cache.put it started
NewEvent(req, stage, asked) ==
    [request |-> req, stage |-> stage, netRequested |-> asked, netFailed |-> FALSE,
     netResponse |-> NoResponse, held |-> NoResponse, answer |-> NotAnswered,
     put |-> "none"]

InitWorker ==
    /\ values = NoGrid
    /\ parsed = [done |-> FALSE, result |-> <<>>]
    /\ CatalogIdle
    /\ PageIdle
    /\ ImagesIdle
    /\ swState = "installing"
    /\ caches \in [CacheNames -> {NoCache, StaleCache}]
    /\ activation = NoActivation
    /\ events = <<>>

\* the install handler: caches.open(CACHE_NAME), then cache.addAll(assets),
\* which stores all of them or, when one cannot be fetched, none; with
\* skipWaiting() the installed worker goes on to activate
Install(ok) ==
    /\ swState = "installing"
    /\ IF ok
       THEN /\ caches' = [cachesOpen(caches, CACHE_NAME) EXCEPT
                             ![CACHE_NAME].entries =
                                 [r \in Requests |->
                                     IF r \in ASSETS_TO_CACHE THEN Response(200, 0)
                                     ELSE @[r]]]
            /\ swState' = "installed"
       ELSE /\ caches' = cachesOpen(caches, CACHE_NAME)
            /\ swState' = "redundant"
    /\ UNCHANGED <<activation, events>>
    /\ UNCHANGED <<parseVars, catalogVars, pageVars, imageVars>>

\* the activate handler up to Promise.all: caches.keys() lists the caches,
\* and caches.delete is called for each old one; with none to delete the
\* activation work is complete at once
Activate ==
    /\ swState = "installed"
    /\ LET keys == { n \in CacheNames : caches[n].exists }
       IN  /\ activation' = [started |-> TRUE, keys |-> keys, deleted |-> {}]
           /\ swState' = IF \E n \in keys : isOldCache(n) THEN "activating"
                                                           ELSE "activated"
    /\ UNCHANGED <<caches, events>>
    /\ UNCHANGED <<parseVars, catalogVars, pageVars, imageVars>>

\* one caches.delete settles; when it was the last one Promise.all settles
\* and the activation work is complete
CacheDeleted(name) ==
    /\ swState = "activating"
    /\ name \in activation.keys \ activation.deleted
    /\ isOldCache(name)
    /\ caches' = cachesDelete(caches, name)
    /\ activation' = [activation EXCEPT !.deleted = @ \cup {name}]
    /\ swState' = IF \A n \in activation.keys \ activation'.deleted : ~isOldCache(n)
                  THEN "activated" ELSE "activating"
    /\ UNCHANGED events
    /\ UNCHANGED <<parseVars, catalogVars, pageVars, imageVars>>

\* the fetch handler up to its first promise: fetch(event.request) for a
\* sheet read, caches.match(event.request) for anything else
FetchEvent(req) ==
    /\ swState = "activated"
    /\ Len(events) < MaxFetchEvents
    /\ events' = Append(events,
                        IF isSheetsRequest(req) THEN NewEvent(req, "net", TRUE)
                                                ELSE NewEvent(req, "match", FALSE))
    /\ UNCHANGED <<swState, caches, activation>>
    /\ UNCHANGED <<parseVars, catalogVars, pageVars, imageVars>>

\* cache-first: caches.match settles; a hit is the answer, a miss goes to
\* the network
MatchSettles(i) ==
    /\ i \in 1..Len(events)
    /\ events[i].stage = "match"
    /\ LET e == events[i]
           found == cachesMatch(caches, e.request)
           seen == [e EXCEPT !.held = caches[CACHE_NAME].entries[e.request]]
       IN  events' = [events EXCEPT ![i] =
                         IF found # NoResponse
                         THEN [seen EXCEPT !.stage = "done",
                                           !.answer = Answered("cache", found)]
                         ELSE [seen EXCEPT !.stage = "net", !.netRequested = TRUE]]
    /\ UNCHANGED <<swState, caches, activation>>
    /\ UNCHANGED <<parseVars, catalogVars, pageVars, imageVars>>

\* fetch(event.request) settles: with a response of some status, or with a
\* failure of the network.  Network-first stores every response and falls
\* back to caches.match on a failure; cache-first stores a cacheable one
\* and lets a failure through to the page.
NetSettles(i, outcome) ==
    /\ i \in 1..Len(events)
    /\ events[i].stage = "net"
    /\ LET e == events[i]
           response == Response(outcome, i)
       IN  events' = [events EXCEPT ![i] =
                         IF outcome = 0
                         THEN IF isSheetsRequest(e.request)
                              THEN [e EXCEPT !.netFailed = TRUE, !.stage = "fallback"]
                              ELSE [e EXCEPT !.netFailed = TRUE, !.stage = "done",
                                             !.answer = Answered("error", NoResponse)]
                         ELSE [e EXCEPT !.netResponse = response,
                                        !.stage = "done",
                                        !.answer = Answered("network", response),
                                        !.put = IF isSheetsRequest(e.request)
                                                   \/ isCacheable(response)
                                                THEN "pending" ELSE "none"]]
    /\ UNCHANGED <<swState, caches, activation>>
    /\ UNCHANGED <<parseVars, catalogVars, pageVars, imageVars>>

\* network-first after a failure: caches.match settles and its value, a
\* stored response or undefined, is the answer
FallbackSettles(i) ==
    /\ i \in 1..Len(events)
    /\ events[i].stage = "fallback"
    /\ LET e == events[i]
           found == cachesMatch(caches, e.request)
       IN  events' = [events EXCEPT ![i] =
                         [e EXCEPT !.held = caches[CACHE_NAME].entries[e.request],
                                   !.stage = "done",
                                   !.answer = IF found # NoResponse
                                              THEN Answered("cache", found)
                                              ELSE Answered("nothing", NoResponse)]]
    /\ UNCHANGED <<swState, caches, activation>>
    /\ UNCHANGED <<parseVars, catalogVars, pageVars, imageVars>>

\* caches.open(CACHE_NAME).then(cache => cache.put(event.request, clone))
\* settles
PutSettles(i) ==
    /\ i \in 1..Len(events)
    /\ events[i].put = "pending"
    /\ caches' = cachePut(caches, CACHE_NAME, events[i].request, events[i].netResponse)
    /\ events' = [events EXCEPT ![i].put = "written"]
    /\ UNCHANGED <<swState, activation>>
    /\ UNCHANGED <<parseVars, catalogVars, pageVars, imageVars>>

NextWorker ==
    \/ \E ok \in BOOLEAN : Install(ok)
    \/ Activate
    \/ \E name \in CacheNames : CacheDeleted(name)
    \/ \E req \in Requests : FetchEvent(req)
    \/ \E i \in 1..MaxFetchEvents : MatchSettles(i)
    \/ \E i \in 1..MaxFetchEvents, outcome \in {0, 200, 404} : NetSettles(i, outcome)
    \/ \E i \in 1..MaxFetchEvents : FallbackSettles(i)
    \/ \E i \in 1..MaxFetchEvents : PutSettles(i)

SpecWorker == InitWorker /\ [][NextWorker]_vars

\* the request goes to the host of the sheets service
ToSheetsHost(req) == req.hostname = "sheets.googleapis.com"

\* the step completes the cache.put of event i
PutCompletes(i) == events[i].put = "pending" /\ events'[i].put = "written"

C13_Answers ==
    \A i \in 1..Len(events) :
        LET e == events[i]
        IN  ToSheetsHost(e.request) =>
                /\ e.netRequested
                /\ e.answer.by = "cache" => e.netFailed
                /\ e.stage = "done" =>
                       IF e.netFailed
                       THEN /\ e.put = "none"
                            /\ e.answer = IF e.held # NoResponse
                                          THEN Answered("cache", e.held)
                                          ELSE Answered("nothing", NoResponse)
                       ELSE /\ e.netResponse = Response(e.netResponse.status, i)
                            /\ e.answer = Answered("network", e.netResponse)
                            /\ e.put \in {"pending", "written"}

C13_Writes ==
    \A i \in 1..Len(events) :
        (ToSheetsHost(events[i].request) /\ PutCompletes(i)) =>
            /\ caches'[CACHE_NAME].exists
            /\ caches'[CACHE_NAME].entries[events[i].request] = events[i].netResponse

\* C13: for a request to the sheets host the worker always asks the network
\* first; when the network answers, the page gets that response and a copy is
\* put into the named cache under the request; a cached response is served
\* only after the network failed, and it is the one stored for that request
\* (no response at all when none is stored).
C13_NetworkFirst == []C13_Answers /\ [][C13_Writes]_vars

\* the second sheet read found the network down and was answered with the
\* response the first one had put into the cache
C13_Witness ==
    /\ Len(events) = 2
    /\ events[1].request = SheetsRequest
    /\ events[2].request = SheetsRequest
    /\ events[2].netFailed
    /\ events[2].answer = Answered("cache", Response(200, 1))
    /\ caches[CACHE_NAME].entries[AssetRequest] = Response(200, 0)

C14_Answers ==
    \A i \in 1..Len(events) :
        LET e == events[i]
        IN  ~ToSheetsHost(e.request) =>
                /\ e.stage \in {"net", "done"} =>
                       (e.netRequested <=> e.held = NoResponse)
                /\ (e.stage = "done" /\ e.held # NoResponse) =>
                       /\ e.answer = Answered("cache", e.held)
                       /\ e.put = "none"
                /\ (e.stage = "done" /\ e.held = NoResponse /\ ~e.netFailed) =>
                       /\ e.answer = Answered("network", e.netResponse)
                       /\ e.put # "none" <=> e.netResponse.status = 200

C14_Writes ==
    /\ \A i \in 1..Len(events) :
           (~ToSheetsHost(events[i].request) /\ PutCompletes(i)) =>
               caches'[CACHE_NAME].entries[events[i].request] = events[i].netResponse
    /\ \A r \in Requests :
           ( /\ ~ToSheetsHost(r)
             /\ swState = "activated"
             /\ caches'[CACHE_NAME].entries[r] # caches[CACHE_NAME].entries[r] )
           => caches'[CACHE_NAME].entries[r].status = 200

\* C14: for a request to any other host the worker answers from the cache
\* whenever the cache holds a response for it, without asking the network;
\* on a miss the page gets the network's response, which is put into the
\* cache only when its status is 200.
C14_CacheFirst == []C14_Answers /\ [][C14_Writes]_vars

\* a file that was not cached on install was fetched once from the network
\* and stored; the second fetch of it was answered from the cache, without a
\* network request
C14_Witness ==
    /\ Len(events) = 2
    /\ events[1].request = ImageRequest
    /\ events[1].netRequested
    /\ events[2].request = ImageRequest
    /\ events[2].stage = "done"
    /\ ~events[2].netRequested
    /\ events[2].answer = Answered("cache", Response(200, 1))

\* C15: once the activation work is complete, every cache with another name
\* that existed when activation started has been deleted, none of them is
\* left, and the cache with the current name exists, was not deleted and
\* still holds what the install stored.
C15_ActivateCleans ==
    swState = "activated" =>
        /\ \A n \in CacheNames : n # CACHE_NAME => ~caches[n].exists
        /\ activation.deleted = activation.keys \ {CACHE_NAME}
        /\ caches[CACHE_NAME].exists
        /\ caches[CACHE_NAME].entries[AssetRequest] # NoResponse

\* activation found all three caches and has deleted the two old ones
C15_Witness ==
    /\ swState = "activated"
    /\ activation.keys = CacheNames
    /\ Cardinality(activation.deleted) = 2
    /\ events = <<>>

-----------------------------------------------------------------------------
(* SpecParse: parseSheetData applied to every grid of a bounded family     *)

MaxRows == 2

\* raw column headers as a sheet may hold them
HeaderNames ==
    { <<"N","a","m","e">>, <<" ","n","a","m","e"," ">>,
      <<"A"," "," ","b">>, <<"a","_","b">>, <<>> }

HeaderRows ==
    {<<>>} \cup { <<h>> : h \in HeaderNames }
           \cup { <<h1, h2>> : h1 \in HeaderNames, h2 \in HeaderNames }

Cells == { <<>>, <<"x">>, <<"Y">> }

DataRows ==
    {<<>>} \cup { <<c>> : c \in Cells }
           \cup { <<c1, c2>> : c1 \in Cells, c2 \in Cells }
           \cup { <<<<"x">>, <<"Y">>, <<"x">>>> }

RECURSIVE SeqsUpTo(_, _)
SeqsUpTo(S, n) ==
    IF n = 0 THEN {<<>>}
    ELSE LET shorter == SeqsUpTo(S, n - 1)
         IN  shorter \cup { Append(s, x) : s \in shorter, x \in S }

Grids ==
    { [present |-> FALSE, grid |-> <<>>], [present |-> TRUE, grid |-> <<>>] }
    \cup { [present |-> TRUE, grid |-> <<h>> \o rows] :
               h \in HeaderRows, rows \in SeqsUpTo(DataRows, MaxRows) }

NotParsed == [done |-> FALSE, result |-> <<>>]

InitParse ==
    /\ values \in Grids
    /\ parsed = NotParsed
    /\ CatalogIdle
    /\ PageIdle
    /\ ImagesIdle
    /\ WorkerIdle

Parse ==
    /\ ~parsed.done
    /\ parsed' = [done |-> TRUE, result |-> parseSheetData(values)]
    /\ UNCHANGED values
    /\ UNCHANGED <<catalogVars, pageVars, imageVars, workerVars>>

NextParse == Parse

SpecParse == InitParse /\ [][NextParse]_vars

-----------------------------------------------------------------------------
(* C2                                                                      *)

GridHeaders == IF values.present /\ Len(values.grid) > 0 THEN values.grid[1] ELSE <<>>
GridRows    == IF values.present /\ Len(values.grid) > 0 THEN Tail(values.grid) ELSE <<>>

\* the last column whose header normalizes to the same key as column i
LastColumnOfKey(H, i) ==
    CHOOSE j \in i..Len(H) :
        /\ NormalizeKey(H[j]) = NormalizeKey(H[i])
        /\ \A m \in (j + 1)..Len(H) : NormalizeKey(H[m]) # NormalizeKey(H[i])

\* the cell of a row under column j, the empty string when the row is shorter
CellOrEmpty(row, j) == IF j <= Len(row) THEN row[j] ELSE <<>>

\* C2 as stated: one record per data row, in row order, and every header's
\* normalized key holds the row's cell at that header's own position (the
\* empty string where the row is shorter); an absent or empty grid gives [].
C2_Original ==
    parsed.done =>
        /\ Len(parsed.result) = Len(GridRows)
        /\ \A k \in 1..Len(GridRows) : \A i \in 1..Len(GridHeaders) :
               Get(parsed.result[k], NormalizeKey(GridHeaders[i]))
                   = CellOrEmpty(GridRows[k], i)

\* C2 amended: as above, except that when several headers normalize to the
\* same key the field holds the cell under the last of them.
C2_Parse ==
    parsed.done =>
        /\ Len(parsed.result) = Len(GridRows)
        /\ (~values.present \/ Len(values.grid) = 0) => parsed.result = <<>>
        /\ \A k \in 1..Len(GridRows) : \A i \in 1..Len(GridHeaders) :
               Get(parsed.result[k], NormalizeKey(GridHeaders[i]))
                   = CellOrEmpty(GridRows[k], LastColumnOfKey(GridHeaders, i))

\* a parsed grid with two distinct keys, one of which needed normalizing, two
\* rows, the first shorter than the header and the second longer
C2_Witness ==
    /\ parsed.done
    /\ Len(GridHeaders) = 2
    /\ NormalizeKey(GridHeaders[1]) # NormalizeKey(GridHeaders[2])
    /\ NormalizeKey(GridHeaders[1]) # GridHeaders[1]
    /\ Len(GridRows) = 2
    /\ Len(GridRows[1]) = 1
    /\ Len(GridRows[2]) = 3
    /\ Get(parsed.result[1], NormalizeKey(GridHeaders[2])) = <<>>
    /\ Get(parsed.result[2], NormalizeKey(GridHeaders[2])) = <<"Y">>

====
